---- MODULE Spec2Model ----
(***************************************************************************)
(* Crawl-and-link-graph subsystem of the multi-agent pipeline:             *)
(*   CrawlerAgent            src/src/multi-agent/agents/crawler.ts         *)
(*   ContentExtractionAgent  src/unnamed/part_010  (extractLinks)          *)
(*   LinkMappingAgent        src/unnamed/part_009                          *)
(*   Phase1Orchestrator      src/unnamed/part_006                          *)
(*                                                                         *)
(* Strings are sequences of symbols.  A symbol stands for a run of         *)
(* characters that no operation of the code ever cuts ("https:", "a.com");  *)
(* "/" is a symbol of its own, so prefix tests, URL parsing and relative   *)
(* resolution are computed on the text, as the code computes them.         *)
(*                                                                         *)
(* JavaScript runs a handler without interruption up to its next await:    *)
(* an action of the model is one such run, from one network await (or the  *)
(* timer that starts the handler) to the next.                             *)
(***************************************************************************)
EXTENDS Integers, Sequences, FiniteSets, TLC

VARIABLES
    pc,           \* per workflow: where its handler is suspended
    input,        \* per workflow: the argument of CrawlerAgent.process
    cur,          \* per workflow: the arguments (url, depth) of the suspended crawlPage
    smIdx,        \* per workflow: index of the sitemap candidate being probed
    maxPages,     \* CrawlerAgent.maxPages
    maxDepth,     \* CrawlerAgent.maxDepth
    visitedUrls,  \* CrawlerAgent.visitedUrls
    crawlQueue,   \* CrawlerAgent.crawlQueue
    baseUrl,      \* CrawlerAgent.baseUrl
    pagesRef,     \* CrawlerAgent.pages: which array object the field refers to
    heap,         \* the CrawledPage[] array objects, by identity
    result,       \* per workflow: what process returned (pages is a reference)
    extracted,    \* per workflow: workflow.data.extractedContent
    linkMap,      \* per workflow: workflow.data.linkMap
    discoveredSitemaps, \* LinkMappingAgent.discoveredSitemaps
    menu,         \* the hrefs the site under crawl uses in its anchors
    fetchLog,     \* history: per workflow, the requests of crawlPage in order, each with
                  \*          its outcome: "pending", "ok", "httpError" or "failed"
    smFound,      \* history: per workflow, the urls array of the sitemap that fed the frontier
    hopOf,        \* history: per workflow, URL -> hops from the seed when first enqueued
    enqLog,       \* history: per workflow, the URLs it pushed on crawlQueue, in order
    status,       \* per workflow: workflow.status, "none" while startCrawl was not called
    data,         \* per workflow: the keys of workflow.data that are set
    timer,        \* per workflow: the step whose setTimeout callback is pending, or "none"
    awaiting,     \* per workflow: the step whose handler awaits its agent, or "none"
    steps,        \* history: per workflow, the steps that started, in order
    statusLog,    \* history: per workflow, the values assigned to workflow.status, in order
    threw,        \* history: per workflow, whether a step has thrown
    legacyPc,      \* legacy CrawlerAgent: where crawlWebsite is suspended
    legacySeed,    \* legacy CrawlerAgent: the url argument of crawlWebsite
    legacyStack,   \* legacy CrawlerAgent: the suspended crawlPage calls, innermost last
    legacyVisited, \* legacy CrawlerAgent: visitedUrls
    legacyPages,   \* legacy CrawlerAgent: the array pages of crawlWebsite
    legacyResult,  \* legacy CrawlerAgent: the CrawlerResult of the message sent
    legacyFetched  \* history: the pages of the legacy crawl in the order of their push

pipeVars == <<pc, input, cur, smIdx, maxPages, maxDepth, visitedUrls, crawlQueue,
              baseUrl, pagesRef, heap, result, extracted, linkMap, discoveredSitemaps,
              menu, fetchLog, smFound, hopOf, enqLog>>

wfVars == <<status, data, timer, awaiting, steps, statusLog, threw>>

legacyVars == <<legacyPc, legacySeed, legacyStack, legacyVisited, legacyPages,
                legacyResult, legacyFetched>>

vars == <<pipeVars, wfVars, legacyVars>>

agentVars == <<maxPages, maxDepth, visitedUrls, crawlQueue, baseUrl, pagesRef, heap>>

----------------------------------------------------------------------------
(* Bounds of the model *)

MaxPagesBound == 3
MaxDepthBound == 1
MaxLinks == 2
MaxLocs == 2

(* Program constants *)

DefaultMaxPages == 50
DefaultMaxDepth == 3
FanOutCap == 15
OrchestratorMaxPages == 50
OrchestratorMaxDepth == 3

ProcIds == {1, 2}
NoUrl == <<>>

----------------------------------------------------------------------------
(* Strings *)

StartsWith(s, p) == Len(p) <= Len(s) /\ SubSeq(s, 1, Len(p)) = p

Contains(q, x) == \E i \in 1..Len(q) : q[i] = x

Take(s, n) == SubSeq(s, 1, IF Len(s) < n THEN Len(s) ELSE n)

RECURSIVE Dedup(_)
Dedup(s) ==
    IF s = <<>> THEN <<>>
    ELSE LET init == Dedup(SubSeq(s, 1, Len(s) - 1))
             last == s[Len(s)]
         IN  IF Contains(init, last) THEN init ELSE Append(init, last)

RECURSIVE SelectSeqBy(_, _)
SelectSeqBy(s, keep) ==
    IF s = <<>> THEN <<>>
    ELSE (IF Head(s) \in keep THEN <<Head(s)>> ELSE <<>>) \o SelectSeqBy(Tail(s), keep)

Range(s) == {s[i] : i \in 1..Len(s)}

\* String.prototype.includes
IsInfix(sub, s) == \E i \in 0..(Len(s) - Len(sub)) : SubSeq(s, i + 1, i + Len(sub)) = sub

----------------------------------------------------------------------------
(* URLs: the WHATWG URL class as far as the code uses it *)

SchemeSyms == {"https:"}
HostSyms == {"a.com", ".evil.io", "b.org"}

\* index of the first "/" of s at or after position i, or Len(s)+1
RECURSIVE FirstSlashFrom(_, _)
FirstSlashFrom(s, i) ==
    IF i > Len(s) THEN Len(s) + 1
    ELSE IF s[i] = "/" THEN i ELSE FirstSlashFrom(s, i + 1)

\* index of the last "/" of s, or 0
RECURSIVE LastSlash(_, _)
LastSlash(s, i) ==
    IF i = 0 THEN 0
    ELSE IF s[i] = "/" THEN i ELSE LastSlash(s, i - 1)

\* new URL(s): protocol, host (no ports occur, so host = hostname), pathname, href
ParseUrl(s) ==
    IF /\ Len(s) >= 4
       /\ s[1] \in SchemeSyms /\ s[2] = "/" /\ s[3] = "/"
       /\ s[4] \in HostSyms
    THEN LET e     == FirstSlashFrom(s, 4)
             host  == SubSeq(s, 4, e - 1)
             rest  == SubSeq(s, e, Len(s))
             path  == IF rest = <<>> THEN <<"/">> ELSE rest
         IN  IF \A i \in 1..Len(host) : host[i] \in HostSyms
             THEN [ok |-> TRUE, protocol |-> s[1], host |-> host, path |-> path,
                   href |-> <<s[1], "/", "/">> \o host \o path]
             ELSE [ok |-> FALSE]
    ELSE [ok |-> FALSE]

\* `${parsedUrl.protocol}//${parsedUrl.host}`
OriginOf(u) == <<u.protocol, "/", "/">> \o u.host

\* new URL(href, base).href
ResolveUrl(href, base) ==
    IF href # <<>> /\ href[1] \in SchemeSyms THEN ParseUrl(href)
    ELSE LET b == ParseUrl(base)
         IN  IF ~b.ok THEN [ok |-> FALSE]
             ELSE IF href = <<>> THEN b
             ELSE IF href[1] = "/" THEN ParseUrl(OriginOf(b) \o href)
             ELSE IF href[1] = "#" THEN [b EXCEPT !.href = b.href \o href]
             ELSE ParseUrl(OriginOf(b) \o SubSeq(b.path, 1, LastSlash(b.path, Len(b.path))) \o href)

----------------------------------------------------------------------------
(* The network: what a request may answer *)

SeedA == <<"https:", "/", "/", "a.com", "/">>
SeedB == <<"https:", "/", "/", "b.org", "/">>
SeedNoScheme == <<"a.com">>

HrefX == <<"/", "x">>
HrefY == <<"/", "y">>
HrefEvil == <<"https:", "/", "/", "a.com", ".evil.io", "/">>
HrefXDir == <<"/", "x", "/">>
HrefRelY == <<"y">>

\* a site is written with one of these sets of hrefs
HrefMenus == {{HrefX, HrefY}, {HrefX, SeedA}, {HrefX, HrefEvil}, {HrefX, SeedB}}

\* a site with a directory page and a path-relative href
RelMenus == {{HrefXDir, HrefRelY}}

LocX == <<"https:", "/", "/", "a.com", "/", "x">>

Locs == {LocX, SeedB}

SeqsUpTo(S, n) == UNION {[1..k -> S] : k \in 0..n}

\* status 0 stands for a transport failure (no response: network error, timeout,
\* oversized body); anchors are the a[href] of the stripped document, in order
PageResponses ==
    {[status |-> 200, anchors |-> a] : a \in SeqsUpTo(menu, MaxLinks)}
      \cup {[status |-> 404, anchors |-> <<>>], [status |-> 0, anchors |-> <<>>]}

SitemapResponses ==
    {[status |-> 200, locs |-> l] : l \in SeqsUpTo(Locs, MaxLocs)}
      \cup {[status |-> 404, locs |-> <<>>]}

\* axios.get resolves only for a 2xx status (default validateStatus); otherwise it throws
AxiosResolves(r) == r.status >= 200 /\ r.status < 300

----------------------------------------------------------------------------
(* CrawlerAgent *)

CrawlPageEntersOneDeeper(url, depth, mD, visited, base) ==
    /\ ~(depth > mD + 1)
    /\ url \notin visited
    /\ StartsWith(url, base)

CrawlPageEntersAnyDepth(url, depth, mD, visited, base) ==
    /\ url \notin visited
    /\ StartsWith(url, base)

\* crawlPage, lines 99-101: the three early returns
CrawlPageEnters(url, depth, mD, visited, base) ==
    /\ ~(depth > mD)
    /\ url \notin visited
    /\ StartsWith(url, base)

VisitedAddLost(visited, url) == visited

\* crawlPage, line 103
VisitedAdd(visited, url) == visited \cup {url}

MakePageDepthPlusOne(url, depth, r) ==
    [url |-> url, html |-> r.anchors, status |-> r.status, depth |-> depth + 1]

\* crawlPage, lines 126-135
MakePage(url, depth, r) ==
    [url |-> url, html |-> r.anchors, status |-> r.status, depth |-> depth]

\* crawlPage, line 146
CrawlerRejects(href) ==
    \/ href = <<>>
    \/ href[1] \in {"#", "mailto:", "tel:"}

\* crawlPage, lines 143-154: the links array
RECURSIVE CrawlerLinks(_, _, _)
CrawlerLinks(anchors, base, visited) ==
    IF anchors = <<>> THEN <<>>
    ELSE LET href == Head(anchors)
             abs  == ResolveUrl(href, base)
             this == IF /\ ~CrawlerRejects(href)
                        /\ abs.ok
                        /\ StartsWith(abs.href, base)
                        /\ abs.href \notin visited
                     THEN <<abs.href>> ELSE <<>>
         IN  this \o CrawlerLinks(Tail(anchors), base, visited)

\* crawlPage, line 156
UniqueLinks(links) == Take(Dedup(links), FanOutCap)

RECURSIVE EnqueueUnchecked(_, _, _, _)
EnqueueUnchecked(queue, links, visited, mP) ==
    IF links = <<>> THEN queue
    ELSE EnqueueUnchecked(IF Cardinality(visited) < mP
                          THEN Append(queue, Head(links)) ELSE queue,
                          Tail(links), visited, mP)

\* crawlPage, lines 157-161
RECURSIVE Enqueue(_, _, _, _)
Enqueue(queue, links, visited, mP) ==
    IF links = <<>> THEN queue
    ELSE Enqueue(IF ~Contains(queue, Head(links)) /\ Cardinality(visited) < mP
                 THEN Append(queue, Head(links)) ELSE queue,
                 Tail(links), visited, mP)

\* crawlPage, lines 141-161: the queue after a page was recorded
QueueAfterPage(queue, anchors, base, visited, mP) ==
    IF Cardinality(visited) >= mP THEN queue
    ELSE Enqueue(queue, UniqueLinks(CrawlerLinks(anchors, base, visited)), visited, mP)

\* Array.prototype.slice(0, n), n possibly negative
Slice0(s, n) ==
    IF n >= 0 THEN Take(s, n)
    ELSE Take(s, IF Len(s) + n > 0 THEN Len(s) + n ELSE 0)

\* discoverSitemap, lines 183-188
SitemapUrls(locs, base) ==
    SelectSeqBy(locs, {l \in Range(locs) : l # <<>> /\ StartsWith(l, base)})

\* discoverSitemap, lines 193-197
RECURSIVE EnqueueSitemap(_, _, _)
EnqueueSitemap(queue, urls, visited) ==
    IF urls = <<>> THEN queue
    ELSE EnqueueSitemap(IF Head(urls) \notin visited /\ ~Contains(queue, Head(urls))
                        THEN Append(queue, Head(urls)) ELSE queue,
                        Tail(urls), visited)

LoopConditionNoBudget(queue, visited, mP) == queue # <<>>

\* process, line 68
LoopCondition(queue, visited, mP) == queue # <<>> /\ Cardinality(visited) < mP

RECURSIVE DrainLifo(_, _, _, _, _)
DrainLifo(queue, visited, mP, mD, base) ==
    IF LoopCondition(queue, visited, mP)
    THEN LET nextUrl == queue[Len(queue)]
             rest    == SubSeq(queue, 1, Len(queue) - 1)
         IN  IF nextUrl \notin visited /\ CrawlPageEnters(nextUrl, 1, mD, visited, base)
             THEN [queue |-> rest, await |-> TRUE, url |-> nextUrl]
             ELSE DrainLifo(rest, visited, mP, mD, base)
    ELSE [queue |-> queue, await |-> FALSE, url |-> NoUrl]

\* process, lines 68-73, run up to the next request: the loop either reaches the
\* axios.get of a crawlPage(nextUrl, 1) or ends
RECURSIVE Drain(_, _, _, _, _)
Drain(queue, visited, mP, mD, base) ==
    IF LoopCondition(queue, visited, mP)
    THEN LET nextUrl == Head(queue)
         IN  IF nextUrl \notin visited /\ CrawlPageEnters(nextUrl, 1, mD, visited, base)
             THEN [queue |-> Tail(queue), await |-> TRUE, url |-> nextUrl]
             ELSE Drain(Tail(queue), visited, mP, mD, base)
    ELSE [queue |-> queue, await |-> FALSE, url |-> NoUrl]

MakeResultCountsPages(url, ref, visited) ==
    [url |-> url, pages |-> ref, totalPages |-> Len(heap[ref])]

\* process, lines 77-85
MakeResult(url, ref, visited) ==
    [url |-> url, pages |-> ref, totalPages |-> Cardinality(visited)]

NoResult == [url |-> NoUrl, pages |-> 0, totalPages |-> 0]

----------------------------------------------------------------------------
(* ContentExtractionAgent *)

\* extractLinks, line 219
ExtractorRejects(href) ==
    \/ href = <<>>
    \/ href[1] \in {"#", "mailto:", "tel:", "javascript:"}

\* extractLinks, lines 206-243
RECURSIVE ExtractLinks(_, _)
ExtractLinks(anchors, pageUrl) ==
    IF anchors = <<>> THEN <<>>
    ELSE LET href == Head(anchors)
             b    == ParseUrl(pageUrl)
             baseHostname == IF b.ok THEN b.host ELSE <<>>
             abs  == ResolveUrl(href, pageUrl)
             this == IF ~ExtractorRejects(href) /\ abs.ok
                     THEN <<[href |-> abs.href,
                             isInternal |-> abs.host = baseHostname,
                             isExternal |-> ~(abs.host = baseHostname)]>>
                     ELSE <<>>
         IN  this \o ExtractLinks(Tail(anchors), pageUrl)

\* extractFromPage, lines 71-88
ExtractFromPage(page) ==
    [pageUrl |-> page.url, links |-> ExtractLinks(page.html, page.url)]

\* ContentExtractionAgent.process, lines 45-69
RECURSIVE ExtractAll(_)
ExtractAll(pages) ==
    IF pages = <<>> THEN <<>>
    ELSE <<ExtractFromPage(Head(pages))>> \o ExtractAll(Tail(pages))

----------------------------------------------------------------------------
(* LinkMappingAgent.  A JavaScript Map is a sequence of [key, val] entries in
   insertion order. *)

MapHas(m, k) == \E i \in 1..Len(m) : m[i].key = k

\* lines 61-64 and 73-76: create the entry if absent, then push
MapPush(m, k, v) ==
    IF MapHas(m, k)
    THEN [i \in 1..Len(m) |-> IF m[i].key = k
                              THEN [key |-> k, val |-> Append(m[i].val, v)]
                              ELSE m[i]]
    ELSE Append(m, [key |-> k, val |-> <<v>>])

\* the (page, link) pairs in the order the two loops of process visit them
RECURSIVE LinkOccurrences(_)
LinkOccurrences(ec) ==
    IF ec = <<>> THEN <<>>
    ELSE [i \in 1..Len(Head(ec).links) |->
             [src |-> Head(ec).pageUrl, link |-> Head(ec).links[i]]]
         \o LinkOccurrences(Tail(ec))

\* process, lines 58-64
RECURSIVE InternalLinksOf(_)
InternalLinksOf(occ) ==
    IF occ = <<>> THEN <<>>
    ELSE LET m == InternalLinksOf(SubSeq(occ, 1, Len(occ) - 1))
             o == occ[Len(occ)]
         IN  IF o.link.isInternal THEN MapPush(m, o.src, o.link.href) ELSE m

\* process, lines 70-77
RECURSIVE ExternalLinksOf(_)
ExternalLinksOf(occ) ==
    IF occ = <<>> THEN <<>>
    ELSE LET m == ExternalLinksOf(SubSeq(occ, 1, Len(occ) - 1))
             o == occ[Len(occ)]
         IN  IF ~o.link.isInternal /\ o.link.isExternal
             THEN MapPush(m, o.src, o.link.href) ELSE m

\* process, lines 66-69: href -> the set of pages that link to it
IncomingLinksOf(occ) ==
    LET internal == {i \in 1..Len(occ) : occ[i].link.isInternal}
    IN  [h \in {occ[i].link.href : i \in internal} |->
            {occ[i].src : i \in {j \in internal : occ[j].link.href = h}}]

\* findOrphanPages, lines 113-123
FindOrphanPages(allPages, incomingLinks) ==
    SelectSeqBy(allPages,
        {pg \in Range(allPages) :
            pg \notin DOMAIN incomingLinks \/ Cardinality(incomingLinks[pg]) = 0})

\* findBrokenLinks, lines 129-135: the targets, map entry by map entry
RECURSIVE AllTargets(_)
AllTargets(m) ==
    IF m = <<>> THEN <<>> ELSE Head(m).val \o AllTargets(Tail(m))

FindBrokenLinksNoDedup(internalLinks, validPages) ==
    LET validSet == Range(validPages)
        targets  == AllTargets(internalLinks)
    IN  SelectSeqBy(targets, Range(targets) \ validSet)

\* findBrokenLinks, lines 125-138
FindBrokenLinks(internalLinks, validPages) ==
    LET validSet == Range(validPages)
        targets  == AllTargets(internalLinks)
    IN  Dedup(SelectSeqBy(targets, Range(targets) \ validSet))

\* pageUrl.split('/').length
SplitLength(url) == Cardinality({i \in 1..Len(url) : url[i] = "/"}) + 1

\* analyzeStructure, lines 151-155: Array.prototype.sort is stable and sorts in place
RECURSIVE InsertByDepth(_, _)
InsertByDepth(sorted, c) ==
    IF sorted = <<>> THEN <<c>>
    ELSE IF SplitLength(sorted[Len(sorted)].pageUrl) <= SplitLength(c.pageUrl)
         THEN Append(sorted, c)
         ELSE Append(InsertByDepth(SubSeq(sorted, 1, Len(sorted) - 1), c),
                     sorted[Len(sorted)])

RECURSIVE SortByDepth(_)
SortByDepth(ec) ==
    IF ec = <<>> THEN <<>>
    ELSE InsertByDepth(SortByDepth(SubSeq(ec, 1, Len(ec) - 1)), ec[Len(ec)])

\* url.split('/'): the parts between the slashes, empty ones included
RECURSIVE SplitSlash(_)
SplitSlash(s) ==
    LET e == FirstSlashFrom(s, 1)
    IN  IF e > Len(s) THEN <<s>>
        ELSE <<SubSeq(s, 1, e - 1)>> \o SplitSlash(SubSeq(s, e + 1, Len(s)))

\* url.split('/').filter(p => p.length > 0)
UrlParts(url) ==
    LET parts == SplitSlash(url)
    IN  SelectSeqBy(parts, Range(parts) \ {<<>>})

\* parts.join('/')
RECURSIVE JoinSlash(_)
JoinSlash(parts) ==
    IF parts = <<>> THEN <<>>
    ELSE IF Len(parts) = 1 THEN parts[1]
    ELSE parts[1] \o <<"/">> \o JoinSlash(Tail(parts))

\* findParentPage, lines 179-188, from index i downwards; undefined is NoUrl
RECURSIVE ParentFrom(_, _, _)
ParentFrom(url, pages, i) ==
    IF i < 0 THEN NoUrl
    ELSE LET parentPath == JoinSlash(Take(UrlParts(url), i + 1))
             hits == {k \in 1..Len(pages) :
                         IsInfix(parentPath, pages[k].pageUrl) /\ pages[k].pageUrl # url}
         IN  IF hits # {}
             THEN pages[CHOOSE k \in hits : \A h \in hits : k <= h].pageUrl
             ELSE ParentFrom(url, pages, i - 1)

\* findParentPage, lines 176-191
FindParentPage(url, pages) == ParentFrom(url, pages, Len(UrlParts(url)) - 2)

\* url.replace(/\/$/, '')
StripSlash(url) ==
    IF url # <<>> /\ url[Len(url)] = "/" THEN SubSeq(url, 1, Len(url) - 1) ELSE url

\* findChildPages, lines 193-205
FindChildPages(url, pages) ==
    LET urlBase == StripSlash(url)
        urls    == [k \in 1..Len(pages) |-> pages[k].pageUrl]
    IN  SelectSeqBy(urls,
            {u \in Range(urls) :
                /\ StartsWith(StripSlash(u), urlBase \o <<"/">>)
                /\ StripSlash(u) # urlBase})

\* analyzeStructure, lines 140-174; the sort is in place, so the loop and the two
\* searches all read the sorted array.  A page's title is not modelled.
AnalyzeStructure(ec) ==
    LET sortedPages == SortByDepth(ec)
    IN  [i \in 1..Len(sortedPages) |->
            [url      |-> sortedPages[i].pageUrl,
             depth    |-> Len(UrlParts(sortedPages[i].pageUrl)) - 1,
             parent   |-> FindParentPage(sortedPages[i].pageUrl, sortedPages),
             children |-> FindChildPages(sortedPages[i].pageUrl, sortedPages)]]

\* LinkMappingAgent.process, lines 43-103
BuildLinkMap(ec, sitemaps) ==
    LET occ       == LinkOccurrences(ec)
        internal  == InternalLinksOf(occ)
        allPages  == [i \in 1..Len(ec) |-> ec[i].pageUrl]
    IN  [internalLinks |-> internal,
         externalLinks |-> ExternalLinksOf(occ),
         sitemaps      |-> sitemaps,
         brokenLinks   |-> FindBrokenLinks(internal, allPages),
         orphanPages   |-> FindOrphanPages(allPages, IncomingLinksOf(occ)),
         siteStructure |-> AnalyzeStructure(ec)]

NoLinkMap ==
    [internalLinks |-> <<>>, externalLinks |-> <<>>, sitemaps |-> <<>>,
     brokenLinks |-> <<>>, orphanPages |-> <<>>, siteStructure |-> <<>>]

----------------------------------------------------------------------------
(* The state machine *)

SingleInputs ==
    [url : {SeedA, SeedNoScheme}, maxPages : 0..MaxPagesBound, maxDepth : 0..MaxDepthBound]

\* executeCrawl, lines 66-70
OrchestratorInput(seed) ==
    [url |-> seed, maxPages |-> OrchestratorMaxPages, maxDepth |-> OrchestratorMaxDepth]

NoInput == [url |-> NoUrl, maxPages |-> 0, maxDepth |-> 0]
NoCall == [url |-> NoUrl, depth |-> 0]

\* the fields of a CrawlerAgent after construction, lines 29-34, and no workflow started
InitAgent ==
    /\ maxPages = DefaultMaxPages
    /\ maxDepth = DefaultMaxDepth
    /\ visitedUrls = {}
    /\ crawlQueue = <<>>
    /\ baseUrl = <<>>
    /\ pagesRef = 0
    /\ heap = [r \in {0} \cup ProcIds |-> <<>>]
    /\ cur = [p \in ProcIds |-> NoCall]
    /\ smIdx = [p \in ProcIds |-> 0]
    /\ result = [p \in ProcIds |-> NoResult]
    /\ extracted = [p \in ProcIds |-> <<>>]
    /\ linkMap = [p \in ProcIds |-> NoLinkMap]
    /\ discoveredSitemaps = <<>>
    /\ fetchLog = [p \in ProcIds |-> <<>>]
    /\ smFound = [p \in ProcIds |-> <<>>]
    /\ hopOf = [p \in ProcIds |-> <<>>]
    /\ enqLog = [p \in ProcIds |-> <<>>]
    /\ status = [p \in ProcIds |-> "none"]
    /\ data = [p \in ProcIds |-> {}]
    /\ timer = [p \in ProcIds |-> "none"]
    /\ awaiting = [p \in ProcIds |-> "none"]
    /\ steps = [p \in ProcIds |-> <<>>]
    /\ statusLog = [p \in ProcIds |-> <<>>]
    /\ threw = [p \in ProcIds |-> FALSE]
    /\ legacyStack = <<>>
    /\ legacyVisited = {}
    /\ legacyPages = <<>>
    /\ legacyResult = <<>>
    /\ legacyFetched = <<>>

\* crawlWebsite of the legacy CrawlerAgent is not called
NoLegacyCall ==
    /\ legacyPc = "off"
    /\ legacySeed = NoUrl

\* one call of CrawlerAgent.process, with any input
Init ==
    /\ InitAgent
    /\ NoLegacyCall
    /\ pc = [p \in ProcIds |-> IF p = 1 THEN "idle" ELSE "off"]
    /\ menu \in HrefMenus
    /\ \E i \in SingleInputs : input = [p \in ProcIds |-> IF p = 1 THEN i ELSE NoInput]

\* history: the URLs of queue get hop count k unless they already have one
Discovered(h, queue, k) ==
    [u \in DOMAIN h \cup Range(queue) |-> IF u \in DOMAIN h THEN h[u] ELSE k]

\* history: what a run of push calls added to the queue
Pushed(before, after) == SubSeq(after, Len(before) + 1, Len(after))

StartSitemapSkipsFirst(p) ==
    /\ pc' = [pc EXCEPT ![p] = "sitemap"]
    /\ smIdx' = [smIdx EXCEPT ![p] = 2]

\* discoverSitemap, lines 169-177: the first candidate is requested
StartSitemap(p) ==
    /\ pc' = [pc EXCEPT ![p] = "sitemap"]
    /\ smIdx' = [smIdx EXCEPT ![p] = 1]

\* process, lines 68-90, from the loop test to the next request or to the return
\* history: a request is logged, the request in flight is answered
Requested(log, url) == Append(log, [url |-> url, outcome |-> "pending"])

Answered(log, outcome) ==
    IF log # <<>> /\ log[Len(log)].outcome = "pending"
    THEN [log EXCEPT ![Len(log)].outcome = outcome]
    ELSE log

\* "ok": axios resolved; "httpError": a response with a status that axios rejects;
\* "failed": no response
Outcome(r) ==
    IF AxiosResolves(r) THEN "ok" ELSE IF r.status = 0 THEN "failed" ELSE "httpError"

DrainThen(p, queue, visited, outcome) ==
    LET d == Drain(queue, visited, maxPages, maxDepth, baseUrl)
    IN  /\ crawlQueue' = d.queue
        /\ smIdx' = [smIdx EXCEPT ![p] = 0]
        /\ IF d.await
           THEN /\ visitedUrls' = VisitedAdd(visited, d.url)
                /\ pc' = [pc EXCEPT ![p] = "fetchLoop"]
                /\ cur' = [cur EXCEPT ![p] = [url |-> d.url, depth |-> 1]]
                /\ fetchLog' = [fetchLog EXCEPT ![p] = Requested(Answered(@, outcome), d.url)]
                /\ UNCHANGED result
           ELSE /\ visitedUrls' = visited
                /\ pc' = [pc EXCEPT ![p] = "done"]
                /\ cur' = [cur EXCEPT ![p] = NoCall]
                /\ result' = [result EXCEPT ![p] = MakeResult(input[p].url, pagesRef, visited)]
                /\ fetchLog' = [fetchLog EXCEPT ![p] = Answered(@, outcome)]

\* process, lines 46-64, up to the request for the seed
Process(p) ==
    /\ pc[p] = "idle"
    /\ maxPages' = input[p].maxPages
    /\ maxDepth' = input[p].maxDepth
    /\ crawlQueue' = <<>>
    /\ pagesRef' = p
    /\ heap' = [heap EXCEPT ![p] = <<>>]
    /\ LET parsedUrl == ParseUrl(input[p].url)
       IN  IF ~parsedUrl.ok
           THEN /\ pc' = [pc EXCEPT ![p] = "failed"]
                /\ visitedUrls' = {}
                /\ UNCHANGED <<baseUrl, cur, smIdx, fetchLog, hopOf, enqLog>>
           ELSE /\ baseUrl' = OriginOf(parsedUrl)
                /\ hopOf' = [hopOf EXCEPT ![p] = Discovered(<<>>, <<input[p].url>>, 0)]
                /\ UNCHANGED enqLog
                /\ IF CrawlPageEnters(input[p].url, 0, input[p].maxDepth, {}, OriginOf(parsedUrl))
                   THEN /\ visitedUrls' = VisitedAdd({}, input[p].url)
                        /\ pc' = [pc EXCEPT ![p] = "fetchSeed"]
                        /\ cur' = [cur EXCEPT ![p] = [url |-> input[p].url, depth |-> 0]]
                        /\ fetchLog' = [fetchLog EXCEPT ![p] = Requested(@, input[p].url)]
                        /\ UNCHANGED smIdx
                   ELSE /\ visitedUrls' = {}
                        /\ StartSitemap(p)
                        /\ UNCHANGED <<cur, fetchLog>>
    /\ UNCHANGED <<input, result, extracted, linkMap, menu, discoveredSitemaps, smFound>>

\* crawlPage, lines 107-165, from the response to the return: the page is recorded
\* and its links are enqueued when axios resolved, nothing changes when it threw
CrawlPageResponse(p, r) ==
    IF AxiosResolves(r)
    THEN /\ heap' = [heap EXCEPT ![pagesRef] = Append(@, MakePage(cur[p].url, cur[p].depth, r))]
         /\ hopOf' = [hopOf EXCEPT ![p] =
                Discovered(@, QueueAfterPage(crawlQueue, r.anchors, baseUrl, visitedUrls, maxPages),
                           (IF cur[p].url \in DOMAIN @ THEN @[cur[p].url] ELSE 0) + 1)]
         /\ enqLog' = [enqLog EXCEPT ![p] = @ \o Pushed(crawlQueue,
                QueueAfterPage(crawlQueue, r.anchors, baseUrl, visitedUrls, maxPages))]
    ELSE UNCHANGED <<heap, hopOf, enqLog>>

QueueAfterResponse(r) ==
    IF AxiosResolves(r)
    THEN QueueAfterPage(crawlQueue, r.anchors, baseUrl, visitedUrls, maxPages)
    ELSE crawlQueue

\* process, line 64 resumed: the seed's response arrives, then discoverSitemap starts
SeedResponse(p) ==
    /\ pc[p] = "fetchSeed"
    /\ \E r \in PageResponses :
          /\ CrawlPageResponse(p, r)
          /\ crawlQueue' = QueueAfterResponse(r)
          /\ fetchLog' = [fetchLog EXCEPT ![p] = Answered(@, Outcome(r))]
    /\ StartSitemap(p)
    /\ cur' = [cur EXCEPT ![p] = NoCall]
    /\ UNCHANGED <<input, maxPages, maxDepth, visitedUrls, baseUrl, pagesRef, result,
                   extracted, linkMap, menu, discoveredSitemaps, smFound>>

\* discoverSitemap, lines 175-202, resumed with the answer of candidate smIdx[p]:
\* a usable sitemap feeds the frontier and ends the probing, anything else moves
\* on to the next candidate; after the last one the drain loop of process starts
SitemapCandidates == <<"sitemap.xml", "sitemap_index.xml", "sitemap-index.xml">>

SitemapResponse(p) ==
    /\ pc[p] = "sitemap"
    /\ \E r \in SitemapResponses :
          LET urls == IF AxiosResolves(r) /\ r.status = 200
                      THEN SitemapUrls(r.locs, baseUrl) ELSE <<>>
              q    == EnqueueSitemap(crawlQueue,
                          Slice0(urls, maxPages - Cardinality(visitedUrls)), visitedUrls)
          IN  IF urls # <<>>
              THEN /\ DrainThen(p, q, visitedUrls, "pending")
                   /\ hopOf' = [hopOf EXCEPT ![p] = Discovered(@, q, 1)]
                   /\ enqLog' = [enqLog EXCEPT ![p] = @ \o Pushed(crawlQueue, q)]
                   /\ smFound' = [smFound EXCEPT ![p] = urls]
              ELSE IF smIdx[p] < Len(SitemapCandidates)
              THEN /\ smIdx' = [smIdx EXCEPT ![p] = @ + 1]
                   /\ UNCHANGED <<pc, cur, crawlQueue, visitedUrls, result, fetchLog, hopOf, enqLog,
                                  smFound>>
              ELSE /\ DrainThen(p, crawlQueue, visitedUrls, "pending")
                   /\ UNCHANGED <<hopOf, enqLog, smFound>>
    /\ UNCHANGED <<input, maxPages, maxDepth, baseUrl, pagesRef, heap, extracted, linkMap, menu, discoveredSitemaps>>

\* process, line 71 resumed: the response for a frontier URL arrives, then the
\* drain loop goes on
LoopResponse(p) ==
    /\ pc[p] = "fetchLoop"
    /\ \E r \in PageResponses :
          /\ CrawlPageResponse(p, r)
          /\ DrainThen(p, QueueAfterResponse(r), visitedUrls, Outcome(r))
    /\ UNCHANGED <<input, maxPages, maxDepth, baseUrl, pagesRef, extracted, linkMap, menu, discoveredSitemaps,
                   smFound>>

\* executeContentExtraction, lines 87-111
ExecuteContentExtraction(p) ==
    /\ pc[p] = "done"
    /\ extracted' = [extracted EXCEPT ![p] = ExtractAll(heap[result[p].pages])]
    /\ pc' = [pc EXCEPT ![p] = "extracted"]
    /\ UNCHANGED <<input, cur, smIdx, agentVars, result, linkMap, fetchLog, hopOf, enqLog, menu, discoveredSitemaps,
                   smFound>>

\* LinkMappingAgent.process on the array workflow.data.extractedContent: the link
\* map is returned and stored, and analyzeStructure has sorted the array in place
LinkMappingProcess(p) ==
    /\ linkMap' = [linkMap EXCEPT ![p] = BuildLinkMap(extracted[p], discoveredSitemaps)]
    /\ extracted' = [extracted EXCEPT ![p] = SortByDepth(@)]

\* executeLinkMapping, lines 113-139
ExecuteLinkMapping(p) ==
    /\ pc[p] = "extracted"
    /\ LinkMappingProcess(p)
    /\ pc' = [pc EXCEPT ![p] = "mapped"]
    /\ UNCHANGED <<input, cur, smIdx, agentVars, result, fetchLog, hopOf, enqLog, menu, discoveredSitemaps,
                   smFound>>

\* LinkMappingAgent.process called a second time with the same array
ProcessAgain(p) ==
    /\ pc[p] = "mapped"
    /\ LinkMappingProcess(p)
    /\ pc' = [pc EXCEPT ![p] = "mappedTwice"]
    /\ UNCHANGED <<input, cur, smIdx, agentVars, result, fetchLog, hopOf, enqLog, menu,
                   discoveredSitemaps, smFound>>

\* the pipeline run without a workflow record, as the agents' own callers run it
Next ==
    \E p \in ProcIds :
        \/ Process(p) /\ UNCHANGED <<wfVars, legacyVars>>
        \/ SeedResponse(p) /\ UNCHANGED <<wfVars, legacyVars>>
        \/ SitemapResponse(p) /\ UNCHANGED <<wfVars, legacyVars>>
        \/ LoopResponse(p) /\ UNCHANGED <<wfVars, legacyVars>>
        \/ ExecuteContentExtraction(p) /\ UNCHANGED <<wfVars, legacyVars>>
        \/ ExecuteLinkMapping(p) /\ UNCHANGED <<wfVars, legacyVars>>

Spec == Init /\ [][Next]_vars

\* startCrawl twice on one Phase1Orchestrator, with different seeds: both workflows
\* run on the one CrawlerAgent the constructor made (lines 30-36, 54, 66-70)
ConcMenus == {{HrefX}}

InitConc ==
    /\ InitAgent
    /\ NoLegacyCall
    /\ pc = [p \in ProcIds |-> "idle"]
    /\ menu \in ConcMenus
    /\ input = [p \in ProcIds |-> OrchestratorInput(IF p = 1 THEN SeedA ELSE SeedB)]

SpecConc == InitConc /\ [][Next]_vars

\* one call of CrawlerAgent.process on a site written with path-relative hrefs
InitRel ==
    /\ InitAgent
    /\ NoLegacyCall
    /\ pc = [p \in ProcIds |-> IF p = 1 THEN "idle" ELSE "off"]
    /\ menu \in RelMenus
    /\ \E i \in SingleInputs : input = [p \in ProcIds |-> IF p = 1 THEN i ELSE NoInput]

\* the pipeline, and LinkMappingAgent.process called once more on its result
NextRel ==
    \/ Next
    \/ \E p \in ProcIds : ProcessAgain(p) /\ UNCHANGED <<wfVars, legacyVars>>

SpecRel == InitRel /\ [][NextRel]_vars

----------------------------------------------------------------------------
(* Phase1Orchestrator: the workflow record and the chain of its step handlers *)

StepNames == <<"crawling", "extracting", "linkMapping", "schemaAnalysis", "knowledgeBase">>

HandleErrorKeepsStatus(p, log) ==
    /\ status' = status
    /\ statusLog' = [statusLog EXCEPT ![p] = log]

\* handleError, lines 206-214; log is what was assigned to the status so far
HandleError(p, log) ==
    /\ status' = [status EXCEPT ![p] = "error"]
    /\ statusLog' = [statusLog EXCEPT ![p] = Append(log, "error")]

\* the catch block of a step handler (lines 82-84, 108-110, 136-138, 163-165, 201-203)
Caught(p, log) ==
    /\ threw' = [threw EXCEPT ![p] = TRUE]
    /\ HandleError(p, log)

\* a step handler from the assignment of its result to its end: the result is
\* stored, the listener is told step:complete, the next handler is scheduled; when
\* the listener throws, the catch block runs and nothing is scheduled
StoredThen(p, key, next) ==
    /\ data' = [data EXCEPT ![p] = @ \cup {key}]
    /\ \/ /\ timer' = [timer EXCEPT ![p] = next]
          /\ UNCHANGED <<status, statusLog, threw>>
       \/ /\ Caught(p, statusLog[p])
          /\ timer' = [timer EXCEPT ![p] = "none"]

\* startCrawl, lines 38-57; workflow.websiteUrl is kept as the url of the crawler
\* input that executeCrawl builds from it (lines 66-70)
StartCrawl(p) ==
    /\ status[p] = "none"
    /\ pc[p] = "idle"
    /\ \E websiteUrl \in {SeedA, SeedNoScheme} :
          input' = [input EXCEPT ![p] = OrchestratorInput(websiteUrl)]
    /\ status' = [status EXCEPT ![p] = "running"]
    /\ statusLog' = [statusLog EXCEPT ![p] = <<"running">>]
    /\ data' = [data EXCEPT ![p] = {}]
    /\ timer' = [timer EXCEPT ![p] = "crawling"]
    /\ UNCHANGED <<pc, cur, smIdx, agentVars, result, extracted, linkMap, discoveredSitemaps,
                   menu, fetchLog, smFound, hopOf, enqLog>>
    /\ UNCHANGED <<awaiting, steps, threw, legacyVars>>

\* executeCrawl, lines 59-66, up to the await: the listener throws on step:start,
\* or CrawlerAgent.process is called
ExecuteCrawl(p) ==
    /\ timer[p] = "crawling"
    /\ timer' = [timer EXCEPT ![p] = "none"]
    /\ steps' = [steps EXCEPT ![p] = Append(@, "crawling")]
    /\ \/ /\ Caught(p, statusLog[p])
          /\ UNCHANGED <<data, awaiting, pipeVars>>
       \/ /\ Process(p)
          /\ awaiting' = [awaiting EXCEPT ![p] = "crawling"]
          /\ UNCHANGED <<status, statusLog, threw, data>>
    /\ UNCHANGED legacyVars

\* executeCrawl, lines 66-85, resumed when CrawlerAgent.process has settled
CrawlReturned(p) ==
    /\ awaiting[p] = "crawling"
    /\ pc[p] \in {"done", "failed"}
    /\ awaiting' = [awaiting EXCEPT ![p] = "none"]
    /\ IF pc[p] = "failed"
       THEN /\ Caught(p, statusLog[p])
            /\ UNCHANGED <<data, timer>>
       ELSE StoredThen(p, "crawlResult", "extracting")
    /\ UNCHANGED <<steps, pipeVars, legacyVars>>

\* executeContentExtraction, lines 87-111, run by its timer
RunContentExtraction(p) ==
    /\ timer[p] = "extracting"
    /\ IF "crawlResult" \notin data[p]
       THEN /\ timer' = [timer EXCEPT ![p] = "none"]
            /\ UNCHANGED <<status, statusLog, threw, data, steps, pipeVars>>
       ELSE /\ steps' = [steps EXCEPT ![p] = Append(@, "extracting")]
            /\ \/ /\ Caught(p, statusLog[p])
                  /\ timer' = [timer EXCEPT ![p] = "none"]
                  /\ UNCHANGED <<data, pipeVars>>
               \/ /\ ExecuteContentExtraction(p)
                  /\ StoredThen(p, "extractedContent", "linkMapping")
    /\ UNCHANGED <<awaiting, legacyVars>>

\* executeLinkMapping, lines 113-139, run by its timer
RunLinkMapping(p) ==
    /\ timer[p] = "linkMapping"
    /\ IF "extractedContent" \notin data[p]
       THEN /\ timer' = [timer EXCEPT ![p] = "none"]
            /\ UNCHANGED <<status, statusLog, threw, data, steps, pipeVars>>
       ELSE /\ steps' = [steps EXCEPT ![p] = Append(@, "linkMapping")]
            /\ \/ /\ Caught(p, statusLog[p])
                  /\ timer' = [timer EXCEPT ![p] = "none"]
                  /\ UNCHANGED <<data, pipeVars>>
               \/ /\ ExecuteLinkMapping(p)
                  /\ StoredThen(p, "linkMap", "schemaAnalysis")
    /\ UNCHANGED <<awaiting, legacyVars>>

\* executeSchemaAnalysis, lines 141-166: the listener or SchemaAnalysisAgent.process
\* throws before the result is stored, or the result is stored
ExecuteSchemaAnalysis(p) ==
    /\ timer[p] = "schemaAnalysis"
    /\ IF {"crawlResult", "extractedContent"} \subseteq data[p]
       THEN /\ steps' = [steps EXCEPT ![p] = Append(@, "schemaAnalysis")]
            /\ \/ /\ Caught(p, statusLog[p])
                  /\ timer' = [timer EXCEPT ![p] = "none"]
                  /\ UNCHANGED data
               \/ StoredThen(p, "schemaAnalysis", "knowledgeBase")
       ELSE /\ timer' = [timer EXCEPT ![p] = "none"]
            /\ UNCHANGED <<status, statusLog, threw, data, steps>>
    /\ UNCHANGED <<awaiting, pipeVars, legacyVars>>

\* executeKnowledgeBaseGeneration, lines 168-204: a throw before the result is
\* stored; or the result is stored and the status set to "completed" (lines 182-183),
\* and then saveKnowledgeBase and the listener return, or one of them throws
ExecuteKnowledgeBaseGeneration(p) ==
    /\ timer[p] = "knowledgeBase"
    /\ timer' = [timer EXCEPT ![p] = "none"]
    /\ IF {"extractedContent", "linkMap", "schemaAnalysis"} \subseteq data[p]
       THEN /\ steps' = [steps EXCEPT ![p] = Append(@, "knowledgeBase")]
            /\ \/ /\ Caught(p, statusLog[p])
                  /\ UNCHANGED data
               \/ /\ data' = [data EXCEPT ![p] = @ \cup {"knowledgeBase"}]
                  /\ status' = [status EXCEPT ![p] = "completed"]
                  /\ statusLog' = [statusLog EXCEPT ![p] = Append(@, "completed")]
                  /\ UNCHANGED threw
               \/ /\ data' = [data EXCEPT ![p] = @ \cup {"knowledgeBase"}]
                  /\ Caught(p, Append(statusLog[p], "completed"))
       ELSE UNCHANGED <<status, statusLog, threw, data, steps>>
    /\ UNCHANGED <<awaiting, pipeVars, legacyVars>>

\* startCrawl on a Phase1Orchestrator, any website URL
InitWorkflow ==
    /\ InitAgent
    /\ NoLegacyCall
    /\ pc = [p \in ProcIds |-> IF p = 1 THEN "idle" ELSE "off"]
    /\ menu \in HrefMenus
    /\ input = [p \in ProcIds |-> NoInput]

NextWorkflow ==
    \E p \in ProcIds :
        \/ StartCrawl(p)
        \/ ExecuteCrawl(p)
        \/ SeedResponse(p) /\ UNCHANGED <<wfVars, legacyVars>>
        \/ SitemapResponse(p) /\ UNCHANGED <<wfVars, legacyVars>>
        \/ LoopResponse(p) /\ UNCHANGED <<wfVars, legacyVars>>
        \/ CrawlReturned(p)
        \/ RunContentExtraction(p)
        \/ RunLinkMapping(p)
        \/ ExecuteSchemaAnalysis(p)
        \/ ExecuteKnowledgeBaseGeneration(p)

SpecWorkflow == InitWorkflow /\ [][NextWorkflow]_vars

----------------------------------------------------------------------------
(* The legacy CrawlerAgent (src/agents/crawler.ts): a recursive, depth-first crawl *)

LegacyMaxPages == 50
LegacyMaxDepth == 3
LegacyFanOut == 20

HrefRoot == <<"/">>

\* a site is written with one of these sets of hrefs
LegacyMenus == {{HrefX, HrefY}, {HrefX, HrefRoot}}

\* documents: the text of the title element, and the lines of the markdown of the
\* body, "short" standing for a line of at most 50 characters and any other
\* symbol for a longer line of at most 200 characters
LegacyDocs ==
    {[title |-> "Home", lines |-> <<"short", "long1">>],
     [title |-> " ", lines |-> <<"short">>],
     [title |-> "", lines |-> <<"long2", "long1">>]}

LegacyResponses ==
    {[status |-> 200, doc |-> d, anchors |-> a] : d \in LegacyDocs, a \in SeqsUpTo(menu, MaxLinks)}
      \cup {[status |-> 0, doc |-> [title |-> "", lines |-> <<>>], anchors |-> <<>>]}

\* String.prototype.trim on the title texts that occur
Trim(t) == IF t = " " THEN "" ELSE t

\* crawlPage, lines 102 and 108: no h1 occurs, so an empty title text gives 'Untitled'
LegacyTitle(d) == Trim(IF d.title = "" THEN "Untitled" ELSE d.title)

\* crawlPage, lines 102-108
LegacyPage(url, r) == [url |-> url, title |-> LegacyTitle(r.doc), content |-> r.doc.lines]

\* extractDescription, lines 150-153
ExtractDescription(content) ==
    LET long == SelectSeqBy(content, Range(content) \ {"short"})
    IN  IF long = <<>> THEN "No description available" ELSE long[1]

\* crawlPage, lines 84-85
LegacyEnters(url, depth, visited, base) ==
    /\ ~(depth > LegacyMaxDepth \/ url \in visited)
    /\ StartsWith(url, base)

\* crawlPage, line 113
LegacyRejects(href) == href # <<>> /\ href[1] \in {"#", "mailto:", "tel:"}

\* crawlPage, lines 110-121: the links of a page; new URL(href, baseUrl) resolves
\* every href against the origin of the site
RECURSIVE LegacyLinks(_, _)
LegacyLinks(anchors, base) ==
    IF anchors = <<>> THEN <<>>
    ELSE LET href == Head(anchors)
             rest == LegacyLinks(Tail(anchors), base)
             abs  == ResolveUrl(href, base)
         IN  IF href = <<>> \/ LegacyRejects(href) THEN rest
             ELSE IF abs.ok /\ StartsWith(abs.href, base) THEN <<abs.href>> \o rest
             ELSE rest

LegacyLimitedLinks(anchors, base) == Take(Dedup(LegacyLinks(anchors, base)), LegacyFanOut)

\* a.url.localeCompare(b.url) < 0 on the URLs that occur: symbol by symbol, "/"
\* before letters, a proper prefix before its extensions
SymRank(c) == IF c = "/" THEN 0 ELSE IF c = "x" THEN 1 ELSE IF c = "y" THEN 2 ELSE 3

RECURSIVE UrlBefore(_, _)
UrlBefore(a, b) ==
    IF b = <<>> THEN FALSE
    ELSE IF a = <<>> THEN TRUE
    ELSE IF Head(a) = Head(b) THEN UrlBefore(Tail(a), Tail(b))
    ELSE SymRank(Head(a)) < SymRank(Head(b))

\* Array.prototype.sort is stable: c goes after the elements that are not after it
RECURSIVE InsertByUrl(_, _)
InsertByUrl(sorted, c) ==
    IF sorted = <<>> THEN <<c>>
    ELSE IF UrlBefore(c.url, Head(sorted).url) THEN <<c>> \o sorted
    ELSE <<Head(sorted)>> \o InsertByUrl(Tail(sorted), c)

\* combinePagesToMarkdown, line 134: pages.sort sorts the array it is given
RECURSIVE SortByUrl(_)
SortByUrl(pages) ==
    IF pages = <<>> THEN <<>>
    ELSE InsertByUrl(SortByUrl(SubSeq(pages, 1, Len(pages) - 1)), pages[Len(pages)])

\* crawlWebsite, lines 53-62, on the array combinePagesToMarkdown has sorted
LegacyResultOf(pages) ==
    [pages |-> pages,
     title |-> IF pages # <<>> /\ pages[1].title # "" THEN pages[1].title ELSE "Website",
     description |-> ExtractDescription(IF pages # <<>> THEN pages[1].content ELSE <<>>)]

\* crawlPage, lines 123-126 and 84-87: the innermost call goes on with its loop
\* until a crawlPage call reaches its request, a call that ends returning to the
\* loop of its caller; an empty stack means crawlPage(url, baseUrl, pages, 0) returned
RECURSIVE LegacyUnwind(_, _, _)
LegacyUnwind(stack, visited, base) ==
    IF stack = <<>> THEN [stack |-> <<>>, visited |-> visited]
    ELSE LET n   == Len(stack)
             top == stack[n]
         IN  IF top.rest = <<>> \/ Cardinality(visited) >= LegacyMaxPages
             THEN LegacyUnwind(SubSeq(stack, 1, n - 1), visited, base)
             ELSE LET link  == Head(top.rest)
                      below == [stack EXCEPT ![n].rest = Tail(top.rest)]
                  IN  IF LegacyEnters(link, top.depth + 1, visited, base)
                      THEN [stack |-> Append(below, [url |-> link, depth |-> top.depth + 1,
                                                     rest |-> <<>>]),
                            visited |-> visited \cup {link}]
                      ELSE LegacyUnwind(below, visited, base)

\* crawlWebsite, lines 41-51, up to the request for the seed
CrawlWebsite ==
    /\ legacyPc = "idle"
    /\ LET parsedUrl == ParseUrl(legacySeed)
       IN  IF ~parsedUrl.ok
           THEN /\ legacyPc' = "failed"
                /\ UNCHANGED <<legacyStack, legacyVisited, legacyPages>>
           ELSE /\ legacyPages' = <<>>
                /\ IF LegacyEnters(legacySeed, 0, {}, OriginOf(parsedUrl))
                   THEN /\ legacyVisited' = {legacySeed}
                        /\ legacyStack' = <<[url |-> legacySeed, depth |-> 0, rest |-> <<>>]>>
                        /\ legacyPc' = "fetch"
                   ELSE /\ legacyVisited' = {}
                        /\ legacyStack' = <<>>
                        /\ legacyPc' = "returned"
    /\ UNCHANGED <<legacySeed, legacyResult, legacyFetched, pipeVars, wfVars>>

\* crawlPage, lines 90-131, resumed with the response of the innermost call, up to
\* the next request
LegacyResponse ==
    /\ legacyPc = "fetch"
    /\ \E r \in LegacyResponses :
          LET base  == OriginOf(ParseUrl(legacySeed))
              n     == Len(legacyStack)
              top   == legacyStack[n]
              next  == IF AxiosResolves(r)
                       THEN LegacyUnwind([legacyStack EXCEPT
                                             ![n].rest = LegacyLimitedLinks(r.anchors, base)],
                                         legacyVisited, base)
                       ELSE LegacyUnwind(SubSeq(legacyStack, 1, n - 1), legacyVisited, base)
          IN  /\ IF AxiosResolves(r)
                 THEN /\ legacyPages' = Append(legacyPages, LegacyPage(top.url, r))
                      /\ legacyFetched' = Append(legacyFetched, LegacyPage(top.url, r))
                 ELSE UNCHANGED <<legacyPages, legacyFetched>>
              /\ legacyStack' = next.stack
              /\ legacyVisited' = next.visited
              /\ legacyPc' = IF next.stack = <<>> THEN "returned" ELSE "fetch"
    /\ UNCHANGED <<legacySeed, legacyResult, pipeVars, wfVars>>

\* crawlWebsite, lines 53-70, after crawlPage returned: combinePagesToMarkdown
\* sorts pages, then the result is built from the array
LegacyReturn ==
    /\ legacyPc = "returned"
    /\ legacyPages' = SortByUrl(legacyPages)
    /\ legacyResult' = LegacyResultOf(SortByUrl(legacyPages))
    /\ legacyPc' = "done"
    /\ UNCHANGED <<legacySeed, legacyStack, legacyVisited, legacyFetched, pipeVars, wfVars>>

\* one call of crawlWebsite of the legacy CrawlerAgent
InitLegacy ==
    /\ InitAgent
    /\ pc = [p \in ProcIds |-> "off"]
    /\ input = [p \in ProcIds |-> NoInput]
    /\ menu \in LegacyMenus
    /\ legacyPc = "idle"
    /\ legacySeed \in {SeedA, LocX, SeedNoScheme}

NextLegacy ==
    \/ CrawlWebsite
    \/ LegacyResponse
    \/ LegacyReturn

SpecLegacy == InitLegacy /\ [][NextLegacy]_vars

----------------------------------------------------------------------------
(* Properties *)

Running(p) == pc[p] \in {"idle", "fetchSeed", "sitemap", "fetchLoop"}
Returned(p) == pc[p] \in {"done", "extracted", "mapped", "mappedTwice"}
ReturnedPages(p) == heap[result[p].pages]
UrlsOf(pages) == {pages[i].url : i \in 1..Len(pages)}
Requests(p) == {fetchLog[p][i].url : i \in 1..Len(fetchLog[p])}
FailedRequests(p) ==
    {fetchLog[p][i].url :
        i \in {j \in 1..Len(fetchLog[p]) : fetchLog[p][j].outcome \in {"httpError", "failed"}}}
SeedFetch(p, outcome) ==
    /\ fetchLog[p] # <<>>
    /\ fetchLog[p][1].url = input[p].url
    /\ fetchLog[p][1].outcome = outcome
HostOf(url) == ParseUrl(url).host

\* C1: the returned pages list has at most maxPages entries, for every
\* maxPages >= 0, the seed counting toward the budget.
PagesWithinBudget ==
    Returned(1) => Len(ReturnedPages(1)) <= input[1].maxPages

\* C2: within one crawl no URL is requested twice, however it was discovered and
\* whether its fetch succeeded or failed, and no URL is twice in pages.
NoUrlFetchedTwice ==
    /\ \A i, j \in 1..Len(fetchLog[1]) : fetchLog[1][i].url = fetchLog[1][j].url => i = j
    /\ \A i, j \in 1..Len(heap[1]) : heap[1][i].url = heap[1][j].url => i = j

\* a URL that the sitemap listed and a crawled page links to was requested, and the
\* crawl returned
FetchedOnceWitness ==
    /\ Returned(1)
    /\ \E u \in Range(smFound[1]) :
          /\ u \in Requests(1)
          /\ \E i \in 1..Len(ReturnedPages(1)) :
                u \in Range(CrawlerLinks(ReturnedPages(1)[i].html, baseUrl, {}))

\* C3: two concurrent crawls for different seeds share no state: each returns
\* its own result, which holds only pages of its own seed's host.
CrawlsIsolated ==
    \A p \in ProcIds :
        Returned(p) =>
            \A i \in 1..Len(ReturnedPages(p)) :
                HostOf(ReturnedPages(p)[i].url) = HostOf(input[p].url)

\* C4: when the seed parses and its fetch succeeds, the seed is in the returned
\* pages with depth 0.
SeedPresentAtDepthZero ==
    (Returned(1) /\ SeedFetch(1, "ok")) =>
        \E i \in 1..Len(ReturnedPages(1)) :
            /\ ReturnedPages(1)[i].url = input[1].url
            /\ ReturnedPages(1)[i].depth = 0

\* the seed was fetched, and so was a second page
SeedPresentWitness ==
    /\ Returned(1)
    /\ SeedFetch(1, "ok")
    /\ Len(ReturnedPages(1)) >= 2

\* C5: every returned page has a recorded depth of at most maxDepth, for every
\* maxDepth >= 0.
DepthWithinMaxDepth ==
    Returned(1) =>
        \A i \in 1..Len(ReturnedPages(1)) : ReturnedPages(1)[i].depth <= input[1].maxDepth

\* with maxDepth = 0 the seed's links were put in the frontier and none was fetched
DepthGuardWitness ==
    /\ Returned(1)
    /\ input[1].maxDepth = 0
    /\ Len(ReturnedPages(1)) = 1
    /\ DOMAIN hopOf[1] # {input[1].url}

\* C6: the depth recorded on a page is the number of link-following hops from
\* the seed at which its URL was first enqueued.
DepthIsHopCount ==
    Returned(1) =>
        \A i \in 1..Len(ReturnedPages(1)) :
            ReturnedPages(1)[i].depth = hopOf[1][ReturnedPages(1)[i].url]

\* what is left of a crawl, counted in requests still to be answered: the page
\* budget not yet used, the sitemap candidates not yet probed, the seed
Variant(p) ==
    CASE pc[p] = "idle"      -> input[p].maxPages + Len(SitemapCandidates) + 3
      [] pc[p] = "fetchSeed" -> input[p].maxPages + Len(SitemapCandidates) + 2
      [] pc[p] = "sitemap"   -> input[p].maxPages + Len(SitemapCandidates) + 2 - smIdx[p]
      [] pc[p] = "fetchLoop" -> input[p].maxPages + 1 - Cardinality(visitedUrls)
      [] OTHER               -> 0

\* C7: every crawl terminates when every request is answered: each answer
\* brings the crawl strictly closer to its end (so the drain loop makes finitely
\* many iterations, at most maxPages requests), and when the loop stops the
\* frontier is empty or visited.size >= maxPages.
CrawlTerminates ==
    /\ [][Running(1) => Variant(1)' < Variant(1)]_vars
    /\ [](Variant(1) >= 0)
    /\ [](Returned(1) => (crawlQueue = <<>> \/ Cardinality(visitedUrls) >= maxPages))

\* the loop ran and was stopped by the page budget, with URLs left in the frontier
BudgetStopWitness ==
    /\ Returned(1)
    /\ Len(fetchLog[1]) >= 2
    /\ crawlQueue # <<>>
    /\ Cardinality(visitedUrls) >= maxPages

\* C8: a failed fetch of a non-seed URL does not abort the crawl, the URL is not
\* in pages, and when a crawled page links to it the link map lists it in
\* brokenLinks.
FailedLinkReportedBroken ==
    pc[1] = "mapped" =>
        \A u \in FailedRequests(1) \ {input[1].url} :
            /\ u \notin UrlsOf(ReturnedPages(1))
            /\ (\E i \in 1..Len(extracted[1]) :
                   \E k \in 1..Len(extracted[1][i].links) : extracted[1][i].links[k].href = u)
               => u \in Range(linkMap[1].brokenLinks)

\* C9: process fails exactly when the seed is unparsable or its fetch fails; in
\* every other case it returns a CrawlResult.
FailsIffSeedUnusable ==
    ~Running(1) =>
        (pc[1] = "failed" <=> (\/ ~ParseUrl(input[1].url).ok
                               \/ SeedFetch(1, "httpError")
                               \/ SeedFetch(1, "failed")))

\* C10: orphanPages is a subset of the crawled page URLs, and a crawled page is
\* an orphan iff no other crawled page's internal link list contains its URL.
OrphanIffNoOtherInbound ==
    pc[1] = "mapped" =>
        /\ Range(linkMap[1].orphanPages) \subseteq UrlsOf(ReturnedPages(1))
        /\ \A u \in UrlsOf(ReturnedPages(1)) :
              u \in Range(linkMap[1].orphanPages)
                <=> ~\E i \in 1..Len(linkMap[1].internalLinks) :
                        /\ linkMap[1].internalLinks[i].key # u
                        /\ u \in Range(linkMap[1].internalLinks[i].val)

InternalTargets(p) ==
    UNION {Range(linkMap[p].internalLinks[i].val) : i \in 1..Len(linkMap[p].internalLinks)}
ExternalTargets(p) ==
    UNION {Range(linkMap[p].externalLinks[i].val) : i \in 1..Len(linkMap[p].externalLinks)}

\* C11: brokenLinks holds, each exactly once, precisely the targets of the
\* internalLinks lists that are not the URL of a crawled page; no URL of a page
\* of the crawl is in brokenLinks.
BrokenLinksExact ==
    pc[1] = "mapped" =>
        LET bl == linkMap[1].brokenLinks
        IN  /\ \A i, j \in 1..Len(bl) : bl[i] = bl[j] => i = j
            /\ Range(bl) = InternalTargets(1) \ UrlsOf(ReturnedPages(1))
            /\ Range(bl) \cap UrlsOf(ReturnedPages(1)) = {}

\* one page links twice to a URL that was not crawled and once to one that was
BrokenLinksWitness ==
    /\ pc[1] = "mapped"
    /\ \E i \in 1..Len(linkMap[1].internalLinks) :
          LET val == linkMap[1].internalLinks[i].val
          IN  /\ \E j, k \in 1..Len(val) :
                    j # k /\ val[j] = val[k] /\ val[j] \in Range(linkMap[1].brokenLinks)
    /\ InternalTargets(1) \cap UrlsOf(ReturnedPages(1)) # {}

\* C12: a second call of LinkMappingAgent.process with the same extractedContent
\* returns the same LinkMap as the first: the same internalLinks and externalLinks
\* entries in the same order, the same orphanPages, brokenLinks and siteStructure.
SecondCallSameOutput ==
    [][(pc[1] = "mapped" /\ pc'[1] = "mappedTwice") => linkMap'[1] = linkMap[1]]_vars

\* C13: LinkMappingAgent.process leaves the extractedContent array it was given
\* unchanged, the same elements in the same order.
ExtractedContentUnchanged ==
    [][(pc[1] = "extracted" /\ pc'[1] = "mapped") => extracted'[1] = extracted[1]]_vars

Count(seq, x) == Cardinality({i \in 1..Len(seq) : seq[i] = x})
\* the list a link map files under key k, empty when there is none
ListOf(m, k) == IF MapHas(m, k) THEN m[CHOOSE i \in 1..Len(m) : m[i].key = k].val ELSE <<>>
HrefsOf(content) == [k \in 1..Len(content.links) |-> content.links[k].href]

\* C14: every extracted link is filed under its source page in exactly one of
\* internalLinks and externalLinks, once per occurrence; a target that is filed as
\* external is in externalLinks under every page that links to it and is in no
\* internalLinks list and not in brokenLinks.
LinksFiledOnce ==
    pc[1] = "mapped" =>
        /\ \A i \in 1..Len(extracted[1]) :
              LET src   == extracted[1][i].pageUrl
                  hrefs == HrefsOf(extracted[1][i])
                  int   == ListOf(linkMap[1].internalLinks, src)
                  ext   == ListOf(linkMap[1].externalLinks, src)
              IN  \A h \in Range(hrefs) :
                      /\ Count(int, h) + Count(ext, h) = Count(hrefs, h)
                      /\ Count(int, h) = 0 \/ Count(ext, h) = 0
                      /\ h \in ExternalTargets(1) => h \in Range(ext)
        /\ ExternalTargets(1) \cap InternalTargets(1) = {}
        /\ ExternalTargets(1) \cap Range(linkMap[1].brokenLinks) = {}

\* the URLs discoverSitemap probes, lines 169-173
SitemapUrlsProbed(p) ==
    {OriginOf(ParseUrl(input[p].url)) \o <<"/", SitemapCandidates[k]>> :
        k \in 1..Len(SitemapCandidates)}

\* C15: when sitemap discovery found a usable sitemap (one that listed URLs of
\* the site), the link map of that crawl lists the URL of that sitemap, one of the
\* probed URLs, in its sitemaps field.
UsableSitemapListed ==
    (pc[1] = "mapped" /\ smFound[1] # <<>>) =>
        Range(linkMap[1].sitemaps) \cap SitemapUrlsProbed(1) # {}

\* C16: with maxDepth = 0 and a seed whose fetch succeeds, no URL but the seed
\* is ever requested, whatever the frontier holds, and the crawl returns exactly
\* one page, the seed.
SeedOnlyAtDepthZero ==
    input[1].maxDepth = 0 =>
        /\ Requests(1) \subseteq {input[1].url}
        /\ (Returned(1) /\ SeedFetch(1, "ok")) =>
              /\ Len(ReturnedPages(1)) = 1
              /\ ReturnedPages(1)[1].url = input[1].url

\* with maxDepth = 0 a link of the seed and a URL of the sitemap were both put in
\* the frontier, and the crawl returned
SeedOnlyWitness ==
    /\ Returned(1)
    /\ input[1].maxDepth = 0
    /\ SeedFetch(1, "ok")
    /\ smFound[1] # <<>>
    /\ ReturnedPages(1)[1].html # <<>>
    /\ Cardinality(DOMAIN hopOf[1]) >= 3

\* the internal URLs the page at url links to, by the rule of the specification:
\* resolved against the page, internal when the hostname is the seed's
LinksOfPage(p, url) ==
    UNION {{h \in Range(HrefsOf(extracted[p][i])) : HostOf(h) = HostOf(input[p].url)} :
              i \in {j \in 1..Len(extracted[p]) : extracted[p][j].pageUrl = url}}

\* the URLs within k hops of the seed; the sitemap's URLs are one hop away
RECURSIVE Within(_, _)
Within(p, k) ==
    IF k = 0 THEN {input[p].url}
    ELSE LET near == Within(p, k - 1)
         IN  near \cup Range(smFound[p]) \cup UNION {LinksOfPage(p, u) : u \in near}

Reachable(p) == Within(p, Len(extracted[p]) + 1)

\* C17: if every request succeeds, every internal URL reachable from the seed is
\* within maxDepth hops (maxDepth >= 1), no page has more links than the fan-out
\* cap and the reachable URLs, the seed among them, number at most maxPages, then
\* the crawl returns exactly the reachable URLs, the link map has no broken
\* links, and the seed is an orphan unless a crawled page links to it.
CompleteCrawlOfSmallSite ==
    (/\ pc[1] = "mapped"
     /\ FailedRequests(1) = {}
     /\ input[1].maxDepth >= 1
     /\ Reachable(1) \subseteq Within(1, input[1].maxDepth)
     /\ \A i \in 1..Len(ReturnedPages(1)) : Len(ReturnedPages(1)[i].html) <= FanOutCap
     /\ Cardinality(Reachable(1)) <= input[1].maxPages)
    => /\ UrlsOf(ReturnedPages(1)) = Reachable(1)
       /\ linkMap[1].brokenLinks = <<>>
       /\ input[1].url \in Range(linkMap[1].orphanPages)
            <=> ~\E u \in UrlsOf(ReturnedPages(1)) : input[1].url \in LinksOfPage(1, u)

\* crawlPage, line 149: the crawler takes href for a link of the site
CrawlerInternal(href, base) ==
    /\ ~CrawlerRejects(href)
    /\ ResolveUrl(href, base).ok
    /\ StartsWith(ResolveUrl(href, base).href, base)

\* extractLinks, line 227: the extractor records href on the page as internal
ExtractorInternal(href, pageUrl) ==
    /\ ~ExtractorRejects(href)
    /\ ResolveUrl(href, pageUrl).ok
    /\ ResolveUrl(href, pageUrl).host = HostOf(pageUrl)

\* C18: every URL requested as a page and every URL put in the frontier has
\* exactly the seed's hostname, and on every crawled page the crawler and the
\* extractor take the same hrefs for internal links.
SeedHostOnly ==
    /\ \A u \in Requests(1) \cup DOMAIN hopOf[1] : HostOf(u) = HostOf(input[1].url)
    /\ \A i \in 1..Len(heap[1]) :
          \A h \in Range(heap[1][i].html) :
              CrawlerInternal(h, baseUrl) <=> ExtractorInternal(h, heap[1][i].url)

\* C19: for every href of a crawled page that both the crawler and the extractor
\* keep, the URL the crawler puts in its links array and the URL the extractor
\* records are the same, namely the href resolved against the page's URL.
ResolvedAgainstPage ==
    \A i \in 1..Len(heap[1]) :
        \A h \in Range(heap[1][i].html) :
            LET byCrawler   == CrawlerLinks(<<h>>, baseUrl, {})
                byExtractor == ExtractLinks(<<h>>, heap[1][i].url)
            IN  (byCrawler # <<>> /\ byExtractor # <<>>) =>
                    /\ byCrawler[1] = ResolveUrl(h, heap[1][i].url).href
                    /\ byExtractor[1].href = byCrawler[1]

\* C20: a request answered with a non-success HTTP status still gives a page,
\* recorded with that status; only a request that got no response (network error,
\* timeout, oversized body) leaves its URL out of pages.
NonSuccessStatusRecorded ==
    \A i \in 1..Len(fetchLog[1]) :
        LET req == fetchLog[1][i]
        IN  /\ req.outcome = "httpError" =>
                  \E k \in 1..Len(heap[1]) :
                      heap[1][k].url = req.url /\ ~AxiosResolves(heap[1][k])
            /\ (req.outcome # "pending" /\ req.url \notin UrlsOf(heap[1])) =>
                  req.outcome = "failed"

\* the crawled pages whose URL is a proper path-prefix of url
AncestorsOf(p, url) ==
    {u \in UrlsOf(ReturnedPages(p)) :
        /\ StripSlash(u) # StripSlash(url)
        /\ StartsWith(StripSlash(url), StripSlash(u) \o <<"/">>)}

\* the parent recorded for url in siteStructure
ParentIn(structure, url) ==
    structure[CHOOSE i \in 1..Len(structure) : structure[i].url = url].parent

\* the page reached from url by following k parent references, NoUrl when there is none
RECURSIVE ParentChain(_, _, _)
ParentChain(structure, url, k) ==
    IF k = 0 \/ url = NoUrl THEN url
    ELSE ParentChain(structure, ParentIn(structure, url), k - 1)

\* C21: in siteStructure the parent of a page is the crawled page whose URL is
\* its longest proper path-prefix, never the page itself, and absent when no
\* ancestor was crawled; following parent references from a page never returns
\* to that page.
ParentIsNearestAncestor ==
    pc[1] = "mapped" =>
        LET structure == linkMap[1].siteStructure
        IN  \A i \in 1..Len(structure) :
                LET url == structure[i].url
                    anc == AncestorsOf(1, url)
                IN  /\ structure[i].parent # url
                    /\ anc = {} => structure[i].parent = NoUrl
                    /\ anc # {} =>
                          /\ structure[i].parent \in anc
                          /\ \A a \in anc : Len(a) <= Len(structure[i].parent)
                    /\ \A k \in 1..Len(structure) : ParentChain(structure, url, k) # url

\* the position at which url was first pushed on the frontier
FirstPushed(p, url) ==
    CHOOSE i \in 1..Len(enqLog[p]) :
        enqLog[p][i] = url /\ \A j \in 1..(i - 1) : enqLog[p][j] # url

\* the URLs of the requests that axios resolved, in request order
RECURSIVE ResolvedUrls(_)
ResolvedUrls(log) ==
    IF log = <<>> THEN <<>>
    ELSE (IF Head(log).outcome = "ok" THEN <<Head(log).url>> ELSE <<>>)
         \o ResolvedUrls(Tail(log))

\* C22: the requests after the seed's are made in the order in which their URLs
\* were pushed on the frontier, and pages lists the fetched pages in the order of
\* their requests.
FetchedInFrontierOrder ==
    /\ \A i \in 2..Len(fetchLog[1]) : fetchLog[1][i].url \in Range(enqLog[1])
    /\ \A i, j \in 2..Len(fetchLog[1]) :
          i < j => FirstPushed(1, fetchLog[1][i].url) < FirstPushed(1, fetchLog[1][j].url)
    /\ [k \in 1..Len(heap[1]) |-> heap[1][k].url] = ResolvedUrls(fetchLog[1])

\* two frontier URLs were fetched, one pushed by a page and one by the sitemap,
\* and the crawl returned
FrontierOrderWitness ==
    /\ Returned(1)
    /\ Len(ReturnedPages(1)) >= 3
    /\ smFound[1] # <<>>
    /\ \E i \in 2..Len(fetchLog[1]) : fetchLog[1][i].url \notin Range(smFound[1])
    /\ \E i \in 2..Len(fetchLog[1]) : fetchLog[1][i].url \in Range(smFound[1])

\* the internal links of a page in document order: resolved against the page,
\* with the seed's hostname, rejected hrefs left out
RECURSIVE InternalLinksInOrder(_, _, _)
InternalLinksInOrder(anchors, pageUrl, seed) ==
    IF anchors = <<>> THEN <<>>
    ELSE LET abs == ResolveUrl(Head(anchors), pageUrl)
         IN  (IF ~CrawlerRejects(Head(anchors)) /\ abs.ok /\ abs.host = HostOf(seed)
              THEN <<abs.href>> ELSE <<>>)
             \o InternalLinksInOrder(Tail(anchors), pageUrl, seed)

\* C23: the step that records a page pushes at most the fan-out cap of URLs on
\* the frontier, and they are the first internal links of the page, in document
\* order, that were neither visited nor queued.
FanOutCapped ==
    [][Len(heap'[1]) > Len(heap[1]) =>
          LET page    == heap'[1][Len(heap'[1])]
              pushed  == Pushed(enqLog[1], enqLog'[1])
              all     == InternalLinksInOrder(page.html, page.url, input[1].url)
              notSeen == Dedup(SelectSeqBy(all, Range(all) \ (visitedUrls \cup Range(crawlQueue))))
          IN  /\ Len(pushed) <= FanOutCap
              /\ pushed = Take(notSeen, Len(pushed))]_vars

\* C24: sitemap discovery starts once per crawl, after the seed, with the first
\* candidate; a candidate that fails or lists no URL of the site adds nothing to the
\* frontier and the next candidate is probed, the crawl going on after the last;
\* the first candidate that lists a URL of the site ends the probing, so at most
\* one sitemap feeds the frontier.
SitemapProbedInOrder ==
    /\ [][(pc[1] # "sitemap" /\ pc'[1] = "sitemap") =>
              (pc[1] \in {"idle", "fetchSeed"} /\ smIdx'[1] = 1)]_vars
    /\ [][pc'[1] \in {"idle", "fetchSeed"} => pc[1] = "idle"]_vars
    /\ [](pc[1] = "sitemap" => smIdx[1] \in 1..Len(SitemapCandidates))
    /\ [][(pc[1] = "sitemap" /\ pc'[1] = "sitemap") =>
              /\ smIdx'[1] = smIdx[1] + 1
              /\ smFound'[1] = <<>>
              /\ crawlQueue' = crawlQueue]_vars
    /\ [][pc[1] = "sitemap" => pc'[1] \in {"sitemap", "fetchLoop", "done"}]_vars
    /\ [][(pc[1] = "sitemap" /\ pc'[1] # "sitemap" /\ smFound'[1] = <<>>) =>
              (smIdx[1] = Len(SitemapCandidates) /\ enqLog'[1] = enqLog[1])]_vars
    /\ [][smFound'[1] # smFound[1] =>
              (pc[1] = "sitemap" /\ smFound[1] = <<>> /\ pc'[1] # "sitemap")]_vars

\* the first two candidates gave nothing and the third is being probed
ThirdCandidateWitness ==
    /\ pc[1] = "sitemap"
    /\ smIdx[1] = 3
    /\ crawlQueue # <<>>

\* C25: a step of sitemap discovery pushes on the frontier at most maxPages
\* minus the number of visited URLs (none when that is not positive), for every
\* maxPages >= 0, and only URLs that start with baseUrl and were neither visited
\* nor queued.
SitemapWithinBudget ==
    [][pc[1] = "sitemap" =>
          LET pushed    == Pushed(enqLog[1], enqLog'[1])
              remaining == maxPages - Cardinality(visitedUrls)
          IN  /\ Len(pushed) <= (IF remaining > 0 THEN remaining ELSE 0)
              /\ \A i \in 1..Len(pushed) :
                    /\ StartsWith(pushed[i], baseUrl)
                    /\ pushed[i] \notin visitedUrls
                    /\ pushed[i] \notin Range(crawlQueue)]_vars

NoDuplicates(q) == \A i, j \in 1..Len(q) : q[i] = q[j] => i = j

\* C26: in a single crawl the frontier never holds a URL twice nor a visited URL,
\* neither between two requests nor right after the pushes of a step, before
\* the drain loop pops; so no popped URL is found visited.
FrontierFresh ==
    /\ [](NoDuplicates(crawlQueue) /\ Range(crawlQueue) \cap visitedUrls = {})
    /\ [][LET afterPush == crawlQueue \o Pushed(enqLog[1], enqLog'[1])
          IN  /\ NoDuplicates(afterPush)
              /\ Range(afterPush) \cap visitedUrls = {}]_vars

\* the second page was processed within budget; it links to itself, which is
\* visited, and to a URL that the seed had pushed, which was not pushed again
FrontierFreshWitness ==
    /\ pc[1] = "fetchLoop"
    /\ input[1].maxPages = 3
    /\ Len(heap[1]) = 2
    /\ LET links == Range(CrawlerLinks(heap[1][2].html, baseUrl, {}))
       IN  /\ heap[1][2].url \in links
           /\ \E u \in links \ {heap[1][2].url} :
                 u \in Range(enqLog[1]) /\ Count(enqLog[1], u) = 1

\* C27: on return totalPages is the number of requests made, which is
\* pages.length plus the number of requests that failed; it equals pages.length
\* exactly when no request failed.
TotalPagesCountsAttempts ==
    Returned(1) =>
        LET failed == {i \in 1..Len(fetchLog[1]) :
                          fetchLog[1][i].outcome \in {"httpError", "failed"}}
        IN  /\ result[1].totalPages = Len(fetchLog[1])
            /\ result[1].totalPages = Len(ReturnedPages(1)) + Cardinality(failed)
            /\ result[1].totalPages = Len(ReturnedPages(1)) <=> failed = {}

\* a request failed and used up the budget: the crawl returned with one page
\* fewer than maxPages and URLs left in the frontier
FailedFetchUsesBudgetWitness ==
    /\ Returned(1)
    /\ FailedRequests(1) # {}
    /\ result[1].totalPages = input[1].maxPages
    /\ Len(ReturnedPages(1)) = input[1].maxPages - 1
    /\ Len(ReturnedPages(1)) >= 1
    /\ crawlQueue # <<>>

\* the key of workflow.data that step k stores
DataKeys == <<"crawlResult", "extractedContent", "linkMap", "schemaAnalysis", "knowledgeBase">>

\* C28: the steps of a workflow start in the order crawling, extracting,
\* linkMapping, schemaAnalysis, knowledgeBase, each one only when the result of the
\* one before is in the workflow data; the status is "completed" only with all five
\* results set; once a step has thrown the status is "error", nothing is scheduled
\* or awaited, and no further step starts.
StepsInStrictOrder ==
    /\ [](\A p \in ProcIds :
            /\ Len(steps[p]) <= Len(StepNames)
            /\ steps[p] = SubSeq(StepNames, 1, Len(steps[p]))
            /\ \A k \in 2..Len(steps[p]) : DataKeys[k - 1] \in data[p]
            /\ status[p] = "completed" => data[p] = Range(DataKeys)
            /\ threw[p] => /\ status[p] = "error"
                           /\ timer[p] = "none"
                           /\ awaiting[p] = "none")
    /\ [][\A p \in ProcIds : threw[p] => steps'[p] = steps[p]]_vars

\* a workflow ran all five steps and completed
WorkflowCompletedWitness ==
    /\ steps[1] = StepNames
    /\ status[1] = "completed"
    /\ data[1] = Range(DataKeys)
    /\ ~threw[1]

\* C29: no value is assigned to the status of a workflow after "completed" or
\* "error" was assigned to it.
StatusAbsorbing ==
    \A p \in ProcIds :
        \A i \in 1..(Len(statusLog[p]) - 1) : statusLog[p][i] = "running"

\* C30: when the seed was fetched, the title and the description of the result of
\* crawlWebsite are those of the seed page ('Website' standing for an empty title),
\* and result.pages lists the pages in the order in which they were fetched.
ResultLeadsWithSeed ==
    (/\ legacyPc = "done"
     /\ legacyFetched # <<>>
     /\ legacyFetched[1].url = legacySeed)
        => /\ legacyResult.title = LegacyResultOf(<<legacyFetched[1]>>).title
           /\ legacyResult.description = ExtractDescription(legacyFetched[1].content)
           /\ legacyResult.pages = legacyFetched

====
